---- MODULE Spec2Model ----
(***************************************************************************)
(* Model of createUploadLink (src/lib/index.js): the request handler of    *)
(* the upload link (file extraction, payload serialization, multipart      *)
(* encoding), the Observable subscriber (abort signal set-up, query        *)
(* rewrite, fetch), the promise chain on the fetch (context annotation,    *)
(* response parsing, result emission, failure classification) and the      *)
(* cleanup function.                                                       *)
(*                                                                         *)
(* Texts are sequences of one-character strings.  JavaScript values are    *)
(* tagged records; objects keep their members in insertion order.          *)
(***************************************************************************)
EXTENDS Integers, Sequences, FiniteSets, TLC

(***************************************************************************)
(* Bounds of the model.                                                    *)
(***************************************************************************)
\* number of subscriptions made to the Observable of the one operation
MaxSubs == 2

(***************************************************************************)
(* JavaScript values.                                                      *)
(***************************************************************************)
Undefined == [t |-> "undefined"]
Null == [t |-> "null"]
Num(n) == [t |-> "number", v |-> n]
Str(s) == [t |-> "string", v |-> s]
File(name) == [t |-> "file", name |-> name]
Member(k, v) == [k |-> k, v |-> v]
Obj(members) == [t |-> "object", m |-> members]

\* obj[key]: the value of the member named key, undefined when there is none
RECURSIVE GetFrom(_, _, _)
GetFrom(members, key, i) ==
  IF i > Len(members) THEN Undefined
  ELSE IF members[i].k = key THEN members[i].v
  ELSE GetFrom(members, key, i + 1)

Get(obj, key) == GetFrom(obj.m, key, 1)

\* JavaScript truthiness of the values that occur here
Truthy(v) ==
  CASE v.t = "undefined" -> FALSE
    [] v.t = "null" -> FALSE
    [] v.t = "number" -> v.v # 0
    [] v.t = "string" -> v.v # << >>
    [] OTHER -> TRUE

(***************************************************************************)
(* Texts.                                                                  *)
(***************************************************************************)
Digit(d) ==
  CASE d = 0 -> "0" [] d = 1 -> "1" [] d = 2 -> "2" [] d = 3 -> "3"
    [] d = 4 -> "4" [] d = 5 -> "5" [] d = 6 -> "6" [] d = 7 -> "7"
    [] d = 8 -> "8" [] d = 9 -> "9"

\* String(n) of a non-negative integer
RECURSIVE NumText(_)
NumText(n) == IF n < 10 THEN << Digit(n) >> ELSE NumText(n \div 10) \o << Digit(n % 10) >>

\* String(v): the conversion String.prototype.replace and '+' apply to a value
ToText(v) ==
  CASE v.t = "string" -> v.v
    [] v.t = "number" -> NumText(v.v)
    [] v.t = "null" -> << "n", "u", "l", "l" >>
    [] v.t = "undefined" -> << "u", "n", "d", "e", "f", "i", "n", "e", "d" >>
    [] OTHER -> << "[", "o", "b", "j", "e", "c", "t", " ", "O", "b", "j", "e", "c", "t", "]" >>

\* one character of String.prototype.toLowerCase (the letters that occur in keys)
LowerChar(c) ==
  CASE c = "I" -> "i" [] c = "D" -> "d" [] c = "N" -> "n" [] c = "A" -> "a"
    [] c = "M" -> "m" [] c = "E" -> "e" [] c = "F" -> "f" [] c = "X" -> "x"
    [] OTHER -> c

ToLowerCase(s) == [i \in 1..Len(s) |-> LowerChar(s[i])]

\* index of the first occurrence of character c in s, 0 when there is none
RECURSIVE FirstIndex(_, _, _)
FirstIndex(s, c, i) ==
  IF i > Len(s) THEN 0 ELSE IF s[i] = c THEN i ELSE FirstIndex(s, c, i + 1)

\* index of the last occurrence of character c in s, 0 when there is none
RECURSIVE LastIndex(_, _, _)
LastIndex(s, c, i) ==
  IF i < 1 THEN 0 ELSE IF s[i] = c THEN i ELSE LastIndex(s, c, i - 1)

\* s.split(c).splice(1).join(c): the text after the first c, empty when s has no c
AfterFirst(s, c) ==
  LET i == FirstIndex(s, c, 1)
  IN  IF i = 0 THEN << >> ELSE SubSeq(s, i + 1, Len(s))

\* s.split(c).slice(0,-1).join(c): the text before the last c, empty when s has no c
BeforeLast(s, c) ==
  LET i == LastIndex(s, c, Len(s))
  IN  IF i = 0 THEN << >> ELSE SubSeq(s, 1, i - 1)

\* does pat match s at position i, ignoring case (the 'i' flag of the RegExp)
MatchesAt(s, pat, i) ==
  /\ i + Len(pat) - 1 <= Len(s)
  /\ \A j \in 1..Len(pat) : LowerChar(s[i + j - 1]) = LowerChar(pat[j])

\* position of the first case-insensitive match of pat in s, 0 when there is none
RECURSIVE MatchIndex(_, _, _)
MatchIndex(s, pat, i) ==
  IF i + Len(pat) - 1 > Len(s) THEN 0
  ELSE IF MatchesAt(s, pat, i) THEN i
  ELSE MatchIndex(s, pat, i + 1)

\* s.replace(RegExp(pat, 'i'), rep): the first match replaced, later ones kept.
\* The keys are plain names, so the pattern is literal; the values of the model
\* hold no '$', so the replacement text has no special replacement patterns.
ReplaceFirst(s, pat, rep) ==
  LET i == MatchIndex(s, pat, 1)
  IN  IF i = 0 THEN s
      ELSE SubSeq(s, 1, i - 1) \o rep \o SubSeq(s, i + Len(pat), Len(s))

\* s.replace(/\n/g, '')
StripNewlines(s) == SelectSeq(s, LAMBDA c : c # "\n")

(***************************************************************************)
(* JSON.  A JSON text is modelled by the members it spells, in order:      *)
(* JSON.stringify leaves out the members whose value is undefined and      *)
(* writes a File as {}; it throws on a cyclic structure.  JSON.parse gets  *)
(* a text; given anything else it converts it with String() first, and     *)
(* "[object FormData]" is no JSON.                                         *)
(***************************************************************************)
Cyclic == [t |-> "cyclic"]

JsonLeaf(v) == IF v.t = "file" THEN Obj(<< >>) ELSE v

JsonMembers(members) ==
  LET kept == SelectSeq(members, LAMBDA mb : mb.v.t # "undefined")
  IN  [i \in 1..Len(kept) |-> Member(kept[i].k, JsonLeaf(kept[i].v))]

JsonValue(v) == IF v.t = "object" THEN Obj(JsonMembers(v.m)) ELSE JsonLeaf(v)

\* a serializer that never throws
HasCycleNever(obj) == FALSE

\* would JSON.stringify(obj) throw
HasCycle(obj) ==
  \E i \in 1..Len(obj.m) :
    \/ obj.m[i].v.t = "cyclic"
    \/ /\ obj.m[i].v.t = "object"
       /\ \E j \in 1..Len(obj.m[i].v.m) : obj.m[i].v.m[j].v.t = "cyclic"

\* JSON.stringify(obj) of an object without cycles
Stringify(obj) ==
  LET kept == SelectSeq(obj.m, LAMBDA mb : mb.v.t # "undefined")
  IN  [kind |-> "json",
       members |-> [i \in 1..Len(kept) |-> Member(kept[i].k, JsonValue(kept[i].v))]]

\* does JSON.parse(x) throw a SyntaxError
ParseThrows(x) == x.kind # "json"

\* JSON.parse(x) of a JSON text
Parse(x) == Obj(x.members)

(***************************************************************************)
(* The operations the link is given.  An operation has a name, a printed   *)
(* query text and variables; the operation's context carries the http      *)
(* configuration of the call and, later, the response.                     *)
(***************************************************************************)
TxtQueryUser == << "{", " ", "u", "s", "e", "r", "(", "i", "d", ":", " ", "$", "i", "d", ")", " ", "{", " ", "n", "a", "m", "e", " ", "}", " ", "}" >>
TxtQueryAdd == << "m", "u", "t", "a", "t", "i", "o", "n", " ", "{", "\n", " ", "a", "d", "d", "(", "n", "a", "m", "e", ":", " ", "$", "n", "a", "m", "e", ")", " ", "}" >>
TxtQueryUpload == << "m", "u", "t", "a", "t", "i", "o", "n", " ", "{", " ", "u", "p", "(", "f", ":", " ", "$", "f", ")", " ", "}" >>
TxtQueryPrefix == << "{", " ", "a", "(", "x", ":", " ", "$", "I", "d", "E", "x", "t", "r", "a", ",", " ", "y", ":", " ", "$", "i", "d", ",", " ", "z", ":", " ", "$", "I", "D", ")", " ", "}" >>
TxtIdExtra == << "i", "d", "E", "x", "t", "r", "a" >>
TxtGetUser == << "G", "e", "t", "U", "s", "e", "r" >>
TxtId == << "i", "d" >>
TxtName == << "n", "a", "m", "e" >>
TxtF == << "f" >>
TxtG == << "g" >>
TxtAl == << "A", "l" >>

OpUser ==
  [operationName |-> Str(TxtGetUser), query |-> TxtQueryUser,
   variables |-> Obj(<< Member(TxtId, Num(5)) >>)]

OpUpload ==
  [operationName |-> Str(TxtGetUser), query |-> TxtQueryUpload,
   variables |-> Obj(<< Member(TxtF, File("a.jpg")) >>)]

OpAdd ==
  [operationName |-> Str(TxtGetUser), query |-> TxtQueryAdd,
   variables |-> Obj(<< Member(TxtName, Str(TxtAl)) >>)]

\* two variables, one a prefix of the other, and a placeholder that occurs twice
OpPrefix ==
  [operationName |-> Str(TxtGetUser), query |-> TxtQueryPrefix,
   variables |-> Obj(<< Member(TxtId, Num(5)), Member(TxtIdExtra, Num(7)) >>)]

\* an operation whose printed query text is empty
OpEmpty ==
  [operationName |-> Str(TxtGetUser), query |-> << >>,
   variables |-> Obj(<< Member(TxtId, Num(5)) >>)]

Operations ==
  { OpUser, OpUpload, OpAdd, OpPrefix, OpEmpty,
    [operationName |-> Str(TxtGetUser), query |-> TxtQueryUpload,
     variables |-> Obj(<< Member(TxtF, File("a.jpg")), Member(TxtG, File("b.jpg")) >>)],
    [operationName |-> Str(TxtGetUser), query |-> TxtQueryUser,
     variables |-> Obj(<< Member(TxtId, Cyclic) >>)] }

\* the operations sent with the http configuration includeQuery: false
OperationsWithoutQuery == { OpUser, OpUpload }

\* selectHttpOptionsAndBody: the body { operationName, variables, query }, the
\* query left out when the http configuration of the context says includeQuery: false
SelectBody(op, includeQuery) ==
  Obj(<< Member("operationName", op.operationName),
         Member("variables", op.variables) >>
      \o (IF includeQuery THEN << Member("query", Str(op.query)) >> ELSE << >>))

\* the headers of fallbackHttpConfig
FallbackHeaders == {"accept", "content-type"}

(***************************************************************************)
(* extractFiles(body): the files among the variables, each with the path   *)
(* it sat at, in traversal order; the body keeps null in their places.     *)
(* extractFiles returns the list only, so the null is written into the     *)
(* tree it is given (line 125 serializes that same body); the variables of *)
(* the body are the operation's own variables object, which                *)
(* selectHttpOptionsAndBody puts into the body without copying it.         *)
(***************************************************************************)
TxtVariablesDot == << "v", "a", "r", "i", "a", "b", "l", "e", "s", "." >>

ExtractFiles(body) ==
  LET vars == Get(body, "variables")
      found == IF vars.t = "object"
               THEN SelectSeq(vars.m, LAMBDA mb : mb.v.t = "file")
               ELSE << >>
  IN  [i \in 1..Len(found) |->
         [path |-> TxtVariablesDot \o found[i].k, file |-> found[i].v]]

BodyWithoutFiles(body) ==
  LET vars == Get(body, "variables")
      clean == IF vars.t = "object"
               THEN Obj([i \in 1..Len(vars.m) |->
                      IF vars.m[i].v.t = "file" THEN Member(vars.m[i].k, Null)
                      ELSE vars.m[i]])
               ELSE vars
  IN  Obj([i \in 1..Len(body.m) |->
         IF body.m[i].k = "variables" THEN Member("variables", clean) ELSE body.m[i]])

(***************************************************************************)
(* The multipart body (lines 133-146): a FormData with the fields          *)
(* operations and map and one part per file, named by its index.           *)
(***************************************************************************)
\* files.reduce(...): index -> [path]
FilesMap(fs) ==
  Obj([i \in 1..Len(fs) |->
         Member(Digit(i - 1), [t |-> "array", items |-> << Str(fs[i].path) >>])])

FormData(payload, fs) ==
  [kind |-> "formdata",
   parts |-> << [name |-> "operations", value |-> payload, filename |-> ""],
                [name |-> "map", value |-> Stringify(FilesMap(fs)), filename |-> ""] >>
             \o [i \in 1..Len(fs) |->
                   [name |-> Digit(i - 1), value |-> fs[i].file,
                    filename |-> fs[i].file.name]]]

(***************************************************************************)
(* The query rewrite of the subscriber (lines 156-178).                    *)
(***************************************************************************)
\* line 157: the selection set, between the first '{' and the last '}'
RawQuery(query) == BeforeLast(AfterFirst(query, "{"), "}")

\* lines 160-166: the literal the loop computes for a key
Val(key, value) ==
  IF ToLowerCase(key) = TxtId \/ value.t = "number"
  THEN ToText(value)
  ELSE << "'" >> \o ToText(value) \o << "'" >>

\* lines 167-168: the placeholder of the key replaced; the replacement handed
\* to replace is body.variables[keys[i]], not val
SubstituteKey(raw, key, value) == ReplaceFirst(raw, << "$" >> \o key, ToText(value))

\* a loop that visits the keys from the last to the first
RECURSIVE SubstituteFromLast(_, _, _)
SubstituteFromLast(raw, vars, i) ==
  IF i > Len(vars.m) THEN raw
  ELSE SubstituteKey(SubstituteFromLast(raw, vars, i + 1), vars.m[i].k, vars.m[i].v)

\* lines 159-169: the loop over Object.keys(body.variables)
RECURSIVE SubstituteFrom(_, _, _)
SubstituteFrom(raw, vars, i) ==
  IF i > Len(vars.m) THEN raw
  ELSE SubstituteFrom(SubstituteKey(raw, vars.m[i].k, vars.m[i].v), vars, i + 1)

\* lines 157-171
RewriteQuery(query, vars) ==
  << " ", "q", "u", "e", "r", "y", " ", "{", " " >>
    \o StripNewlines(SubstituteFrom(RawQuery(query), vars, 1))
    \o << " ", "}", " " >>

\* a guard that asks only whether the body has a query member
HasQueryMember(body) == Get(body, "query").t # "undefined"

\* line 156: if (body.query)
HasQuery(body) == Truthy(Get(body, "query"))

\* line 158: Object.keys(null) and Object.keys(undefined) throw a TypeError
RewriteThrows(body) == Get(body, "variables").t \in {"null", "undefined"}

\* a rewritten body named by the operationName field of the parsed body
RewrittenBodyNamed(body) ==
  Obj(<< Member("operationName", Get(body, "operationName")),
         Member("query", Str(RewriteQuery(Get(body, "query").v, Get(body, "variables")))),
         Member("variables", Null) >>)

\* lines 172-176
RewrittenBody(body) ==
  Obj(<< Member("operationName", Get(body, "operation")),
         Member("query", Str(RewriteQuery(Get(body, "query").v, Get(body, "variables")))),
         Member("variables", Null) >>)

(***************************************************************************)
(* Results, failures and observer events.                                  *)
(***************************************************************************)
Data == Str(<< "d" >>)
Errs == Str(<< "e" >>)

\* what parseAndCheckHttpResponse resolves with
ParseResults == { [data |-> Data, errors |-> Undefined] }

AbortError == [name |-> "AbortError", result |-> Undefined]
SyntaxError == [name |-> "SyntaxError", result |-> Undefined]
TypeError == [name |-> "TypeError", result |-> Undefined]
NoError == [name |-> "", result |-> Undefined]

\* what the fetch implementation rejects with of its own: a network failure, a
\* failure carrying a result (a custom fetch), an abort of its own (a fetch with a
\* timeout)
FetchErrors ==
  { [name |-> "TypeError", result |-> Undefined],
    [name |-> "Error", result |-> [data |-> Data, errors |-> Errs]],
    AbortError }

\* what parseAndCheckHttpResponse rejects with: a ServerError carrying the parsed
\* result, a ServerParseError carrying none
ParseErrors ==
  { [name |-> "ServerError", result |-> [data |-> Data, errors |-> Errs]],
    [name |-> "ServerError", result |-> [data |-> Undefined, errors |-> Errs]],
    [name |-> "ServerParseError", result |-> Undefined] }

EvNext(v) == [type |-> "next", value |-> v]
EvError(err) == [type |-> "error", value |-> err]
EvComplete == [type |-> "complete", value |-> Undefined]

IsTerminal(ev) == ev.type \in {"error", "complete"}

(***************************************************************************)
(* State.                                                                  *)
(***************************************************************************)
VARIABLES
  operation,            \* the operation handed to the link
  includeQuery,         \* http.includeQuery of the operation's context
  controllerSupported,  \* does createSignalIfSupported return a controller
  context,              \* the operation's context: the response key
  linkPc,               \* the request handler: "start", "ready", "threw"
  linkLog,              \* the steps the request handler has run, in order
  options,              \* the options object shared by all subscriptions
  files,                \* the extracted files
  ex,                   \* the executions, one per subscription
  events                \* the events each subscription's observer was delivered

vars == << operation, includeQuery, controllerSupported, context, linkPc, linkLog,
           options, files, ex, events >>

Execs == 1..MaxSubs

NoBody == [kind |-> "none"]

\* the phase of the network call at a position of the promise chain: the fetch is
\* pending, the response is being received and parsed, or the call has settled
Phase(pc) ==
  CASE pc = "fetching" -> "pending"
    [] pc \in {"resolved", "forwarded", "parsing"} -> "receiving"
    [] OTHER -> "settled"

\* an execution before its subscription
IdleExec ==
  [pc |-> "idle",         \* position in the promise chain
   closed |-> FALSE,      \* is the subscription closed
   unsubscribed |-> FALSE,\* did the caller unsubscribe
   unsubAt |-> "",        \* phase of the call when the caller unsubscribed
   lateUnsub |-> FALSE,   \* did the caller unsubscribe after a terminal event
   hasCleanup |-> FALSE,  \* does the subscription hold the cleanup function
   cleanups |-> 0,        \* runs of the cleanup function
   abortCalls |-> 0,      \* calls of controller.abort()
   abortAt |-> "",        \* phase of the call when controller.abort() ran
   aborted |-> FALSE,     \* signal.aborted
   body |-> Undefined,    \* line 155: the body the subscriber parsed
   fetches |-> 0,         \* calls of linkFetch
   fetchBody |-> NoBody,  \* the body linkFetch was handed
   fetchSignal |-> 0,     \* the signal linkFetch was handed, 0 for none
   response |-> Undefined,
   result |-> Undefined,
   error |-> NoError,
   log |-> << >>]         \* the steps of the execution, in order

Init ==
  /\ operation \in Operations
  /\ includeQuery \in BOOLEAN
  /\ ~includeQuery => operation \in OperationsWithoutQuery
  /\ controllerSupported \in BOOLEAN
  /\ context = [response |-> Undefined]
  /\ linkPc = "start"
  /\ linkLog = << >>
  /\ options = [headers |-> FallbackHeaders, body |-> NoBody, signal |-> 0]
  /\ files = << >>
  /\ ex = [e \in Execs |-> IdleExec]
  /\ events = [e \in Execs |-> << >>]

(***************************************************************************)
(* The request handler (lines 107-147), up to the return of the            *)
(* Observable.                                                             *)
(***************************************************************************)
\* lines 127-147: the body left in options
RequestBody(payload, fs) ==
  IF Len(fs) > 0 THEN FormData(payload, fs) ELSE payload

\* lines 127-129: the headers left in options
RequestHeaders(headers, fs) ==
  IF Len(fs) > 0 THEN headers \ {"content-type"} ELSE headers

Request ==
  /\ linkPc = "start"
  /\ LET selected == SelectBody(operation, includeQuery)
         fs == ExtractFiles(selected)
         body == BodyWithoutFiles(selected)
     IN  /\ operation' = [operation EXCEPT !.variables = Get(body, "variables")]
         /\ files' = fs
         /\ IF HasCycle(body)
            THEN \* serializeFetchParameter throws: no Observable is returned
                 /\ linkPc' = "threw"
                 /\ linkLog' = << "extractFiles", "serialize" >>
                 /\ UNCHANGED options
            ELSE /\ linkPc' = "ready"
                 /\ linkLog' = << "extractFiles", "serialize" >>
                                 \o (IF Len(fs) > 0 THEN << "multipart" >> ELSE << >>)
                 /\ options' = [options EXCEPT
                                  !.headers = RequestHeaders(@, fs),
                                  !.body = RequestBody(Stringify(body), fs)]
  /\ UNCHANGED << includeQuery, controllerSupported, context, ex, events >>

(***************************************************************************)
(* The Observable around the subscriber (line 149).  Its observer drops    *)
(* every call made after the subscription closed; an error or a complete   *)
(* closes the subscription; closing it, by a terminal event or by the      *)
(* caller's unsubscribe, runs the cleanup function the subscriber          *)
(* returned, once.  A subscriber that throws has returned no cleanup       *)
(* function, and what it threw is sent as an error event.                  *)
(***************************************************************************)
\* the calls up to the first terminal one
RECURSIVE UpToTerminal(_, _)
UpToTerminal(calls, i) ==
  IF i > Len(calls) THEN calls
  ELSE IF IsTerminal(calls[i]) THEN SubSeq(calls, 1, i)
  ELSE UpToTerminal(calls, i + 1)

\* an observer that delivers also after the subscription closed
DeliveredAlways(closed, calls) == UpToTerminal(calls, 1)

\* the events the observer of a subscription delivers for the calls made on it
Delivered(closed, calls) == IF closed THEN << >> ELSE UpToTerminal(calls, 1)

HasTerminal(calls) == \E i \in 1..Len(calls) : IsTerminal(calls[i])

CallTypes(calls) == [i \in 1..Len(calls) |-> calls[i].type]

\* a cleanup function that does not abort the fetch
CleanupWithoutAbort(x) == x

\* lines 204-207: the cleanup function
Cleanup(x) ==
  IF controllerSupported
  THEN [x EXCEPT !.abortCalls = @ + 1, !.abortAt = Phase(x.pc), !.aborted = TRUE]
  ELSE x

\* the subscription closes: the cleanup function runs if it is still held
Teardown(x) ==
  IF x.hasCleanup
  THEN Cleanup([x EXCEPT !.closed = TRUE, !.hasCleanup = FALSE, !.cleanups = @ + 1])
  ELSE [x EXCEPT !.closed = TRUE]

\* the observer is called with calls by a handler of the chain
Observe(x, calls) ==
  LET logged == [x EXCEPT !.log = @ \o CallTypes(calls)]
  IN  IF ~x.closed /\ HasTerminal(calls) THEN Teardown(logged) ELSE logged

(***************************************************************************)
(* The subscriber (lines 149-208), run synchronously by subscribe().       *)
(***************************************************************************)
\* a subscriber that does not put its signal in the options
SubscriberSignalNotSet(signal, e) == signal

\* a subscriber that hands every fetch the signal of the first subscription
SubscriberSignalShared(signal, e) == IF controllerSupported THEN 1 ELSE signal

\* lines 151-152: the signal left in options
SubscriberSignal(signal, e) == IF controllerSupported THEN e ELSE signal

\* line 155: let body = JSON.parse(options.body), undefined when that throws
SubscriberParsed(text) == IF ParseThrows(text) THEN Undefined ELSE Parse(text)

\* a subscriber that leaves the body as the request handler serialized it
SubscriberBodyAsSerialized(text) == text

\* lines 155-178: the body left in options, when nothing throws
SubscriberBody(text) ==
  LET body == Parse(text)
  IN  IF HasQuery(body) THEN Stringify(RewrittenBody(body)) ELSE text

\* lines 155-158: what the subscriber throws before the fetch, NoError if nothing
SubscriberThrows(text) ==
  IF ParseThrows(text) THEN SyntaxError
  ELSE IF HasQuery(Parse(text)) /\ RewriteThrows(Parse(text)) THEN TypeError
  ELSE NoError

\* lines 155-178: the steps the subscriber logs before the fetch
SubscriberSteps(text) ==
  IF ParseThrows(text) THEN << "parseBody" >>
  ELSE IF HasQuery(Parse(text))
       THEN IF RewriteThrows(Parse(text)) THEN << "parseBody", "rewrite" >>
            ELSE << "parseBody", "rewrite", "serialize" >>
       ELSE << "parseBody" >>

Subscribe(e) ==
  /\ linkPc = "ready"
  /\ ex[e].pc = "idle"
  /\ e > 1 => ex[e - 1].pc # "idle"
  /\ LET signal == SubscriberSignal(options.signal, e)
         thrown == SubscriberThrows(options.body)
     IN  IF thrown # NoError
         THEN \* the subscriber throws: the Observable reports it to the observer
              /\ options' = [options EXCEPT !.signal = signal]
              /\ ex' = [ex EXCEPT ![e] =
                          [Observe([@ EXCEPT !.log = SubscriberSteps(options.body),
                                             !.body = SubscriberParsed(options.body)],
                                   << EvError(thrown) >>)
                             EXCEPT !.pc = "done", !.error = thrown]]
              /\ events' = [events EXCEPT ![e] = << EvError(thrown) >>]
         ELSE \* line 180: linkFetch(uri, options); the cleanup function is returned
              /\ options' = [options EXCEPT !.signal = signal,
                                            !.body = SubscriberBody(@)]
              /\ ex' = [ex EXCEPT ![e] =
                          [@ EXCEPT !.pc = "fetching",
                                    !.hasCleanup = TRUE,
                                    !.body = SubscriberParsed(options.body),
                                    !.fetches = @ + 1,
                                    !.fetchBody = SubscriberBody(options.body),
                                    !.fetchSignal = signal,
                                    !.log = SubscriberSteps(options.body) \o << "fetch" >>]]
              /\ UNCHANGED events
  /\ UNCHANGED << operation, includeQuery, controllerSupported, context, linkPc,
                  linkLog, files >>

(***************************************************************************)
(* The network call and the response parser, as the link sees them.        *)
(***************************************************************************)
\* the signal the fetch of execution e was handed is aborted; the signals are
\* named by the execution whose subscriber created them
SignalAborted(e) == ex[e].fetchSignal # 0 /\ ex[ex[e].fetchSignal].aborted

\* the fetch resolves with a response (it does not once its signal is aborted)
FetchResolve(e) ==
  /\ ex[e].pc = "fetching"
  /\ ~SignalAborted(e)
  /\ ex' = [ex EXCEPT ![e] = [@ EXCEPT !.pc = "resolved", !.response = [id |-> e]]]
  /\ UNCHANGED << operation, includeQuery, controllerSupported, context, linkPc,
                  linkLog, options, files, events >>

\* the fetch rejects of its own
FetchReject(e) ==
  /\ ex[e].pc = "fetching"
  /\ ~SignalAborted(e)
  /\ \E err \in FetchErrors :
       ex' = [ex EXCEPT ![e] = [@ EXCEPT !.pc = "rejected", !.error = err]]
  /\ UNCHANGED << operation, includeQuery, controllerSupported, context, linkPc,
                  linkLog, options, files, events >>

\* the fetch rejects because its signal was aborted
FetchAbort(e) ==
  /\ ex[e].pc = "fetching"
  /\ SignalAborted(e)
  /\ ex' = [ex EXCEPT ![e] = [@ EXCEPT !.pc = "rejected", !.error = AbortError]]
  /\ UNCHANGED << operation, includeQuery, controllerSupported, context, linkPc,
                  linkLog, options, files, events >>

\* parseAndCheckHttpResponse resolves with the result
ParseResolve(e) ==
  /\ ex[e].pc = "parsing"
  /\ \E r \in ParseResults :
       ex' = [ex EXCEPT ![e] = [@ EXCEPT !.pc = "parsed", !.result = r]]
  /\ UNCHANGED << operation, includeQuery, controllerSupported, context, linkPc,
                  linkLog, options, files, events >>

\* parseAndCheckHttpResponse rejects
ParseReject(e) ==
  /\ ex[e].pc = "parsing"
  /\ \E err \in ParseErrors :
       ex' = [ex EXCEPT ![e] = [@ EXCEPT !.pc = "rejected", !.error = err]]
  /\ UNCHANGED << operation, includeQuery, controllerSupported, context, linkPc,
                  linkLog, options, files, events >>

\* reading the response body rejects because the signal was aborted
ParseAbort(e) ==
  /\ ex[e].pc = "parsing"
  /\ SignalAborted(e)
  /\ ex' = [ex EXCEPT ![e] = [@ EXCEPT !.pc = "rejected", !.error = AbortError]]
  /\ UNCHANGED << operation, includeQuery, controllerSupported, context, linkPc,
                  linkLog, options, files, events >>

(***************************************************************************)
(* The handlers of the promise chain (lines 180-201).                      *)
(***************************************************************************)
\* a first handler that does not forward the response
ThenSetContextNotForwarding(e) ==
  /\ ex[e].pc = "resolved"
  /\ ex' = [ex EXCEPT ![e] = [@ EXCEPT !.pc = "forwarded",
                                       !.log = @ \o << "setContext" >>]]
  /\ UNCHANGED << operation, includeQuery, controllerSupported, context, linkPc,
                  linkLog, options, files, events >>

\* lines 181-185: the response is forwarded on the context
ThenSetContext(e) ==
  /\ ex[e].pc = "resolved"
  /\ context' = [context EXCEPT !.response = ex[e].response]
  /\ ex' = [ex EXCEPT ![e] = [@ EXCEPT !.pc = "forwarded",
                                       !.log = @ \o << "setContext" >>]]
  /\ UNCHANGED << operation, includeQuery, controllerSupported, linkPc, linkLog,
                  options, files, events >>

\* line 186: the response is handed to parseAndCheckHttpResponse(operation)
ThenParse(e) ==
  /\ ex[e].pc = "forwarded"
  /\ ex' = [ex EXCEPT ![e] = [@ EXCEPT !.pc = "parsing", !.log = @ \o << "parse" >>]]
  /\ UNCHANGED << operation, includeQuery, controllerSupported, context, linkPc,
                  linkLog, options, files, events >>

\* a result handler that emits the result twice
ThenCallsNextTwice(result) == << EvNext(result), EvNext(result), EvComplete >>

\* lines 187-190: the calls the result handler makes on the observer
ThenCalls(result) == << EvNext(result), EvComplete >>

ThenEmit(e) ==
  /\ ex[e].pc = "parsed"
  /\ LET calls == ThenCalls(ex[e].result)
     IN  /\ events' = [events EXCEPT ![e] = @ \o Delivered(ex[e].closed, calls)]
         /\ ex' = [ex EXCEPT ![e] = [Observe(@, calls) EXCEPT !.pc = "done"]]
  /\ UNCHANGED << operation, includeQuery, controllerSupported, context, linkPc,
                  linkLog, options, files >>

\* a test that asks only whether the failure carries a result
HasResult(error) == error.result # Undefined

\* line 196: error.result && error.result.errors && error.result.data
HasGraphQLResult(error) ==
  /\ error.result # Undefined
  /\ Truthy(error.result.errors)
  /\ Truthy(error.result.data)

\* a failure handler that does not forward the result the failure carries
CatchCallsErrorOnly(error) ==
  IF error.name = "AbortError" THEN << >> ELSE << EvError(error) >>

\* a failure handler that swallows every failure
CatchCallsNone(error) == << >>

\* lines 191-201: the calls the failure handler makes on the observer
CatchCalls(error) ==
  IF error.name = "AbortError" THEN << >>
  ELSE (IF HasGraphQLResult(error) THEN << EvNext(error.result) >> ELSE << >>)
         \o << EvError(error) >>

CatchHandler(e) ==
  /\ ex[e].pc = "rejected"
  /\ LET calls == CatchCalls(ex[e].error)
     IN  /\ events' = [events EXCEPT ![e] = @ \o Delivered(ex[e].closed, calls)]
         /\ ex' = [ex EXCEPT ![e] = [Observe(@, calls) EXCEPT !.pc = "done"]]
  /\ UNCHANGED << operation, includeQuery, controllerSupported, context, linkPc,
                  linkLog, options, files >>

(***************************************************************************)
(* The caller unsubscribes.                                                *)
(***************************************************************************)
Unsubscribe(e) ==
  /\ ex[e].pc # "idle"
  /\ ~ex[e].closed
  /\ ex' = [ex EXCEPT ![e] = Teardown([@ EXCEPT !.unsubscribed = TRUE,
                                                !.unsubAt = Phase(ex[e].pc)])]
  /\ UNCHANGED << operation, includeQuery, controllerSupported, context, linkPc,
                  linkLog, options, files, events >>

\* the caller unsubscribes from a subscription a terminal event has closed: the
\* subscription does nothing
UnsubscribeClosed(e) ==
  /\ ex[e].pc = "done"
  /\ ex[e].closed
  /\ ~ex[e].unsubscribed
  /\ ~ex[e].lateUnsub
  /\ ex' = [ex EXCEPT ![e] = [@ EXCEPT !.lateUnsub = TRUE]]
  /\ UNCHANGED << operation, includeQuery, controllerSupported, context, linkPc,
                  linkLog, options, files, events >>

Next ==
  \/ Request
  \/ \E e \in Execs : Subscribe(e)
  \/ \E e \in Execs : FetchResolve(e)
  \/ \E e \in Execs : FetchReject(e)
  \/ \E e \in Execs : FetchAbort(e)
  \/ \E e \in Execs : ThenSetContext(e)
  \/ \E e \in Execs : ThenParse(e)
  \/ \E e \in Execs : ParseResolve(e)
  \/ \E e \in Execs : ParseReject(e)
  \/ \E e \in Execs : ParseAbort(e)
  \/ \E e \in Execs : ThenEmit(e)
  \/ \E e \in Execs : CatchHandler(e)
  \/ \E e \in Execs : Unsubscribe(e)
  \/ \E e \in Execs : UnsubscribeClosed(e)

Spec == Init /\ [][Next]_vars

(***************************************************************************)
(* Properties.                                                             *)
(***************************************************************************)
EventTypes(evs) == [i \in 1..Len(evs) |-> evs[i].type]

CountType(evs, type) == Cardinality({i \in 1..Len(evs) : evs[i].type = type})

\* the calls the code has made on the observer of an execution, in order
ObserverCalls(log) == SelectSeq(log, LAMBDA l : l \in {"next", "error", "complete"})

\* the phases of the call at which the response has not arrived
BeforeResponse == {"pending"}

\* the caller unsubscribed from execution e while its fetch was pending
CancelledBeforeResponse(e) == ex[e].unsubscribed /\ ex[e].unsubAt \in BeforeResponse

\* C1 as stated: a cancellation before the response arrives leaves the observer
\* without next and without error event, and the network call is aborted through
\* the signal it was handed.
C1_CancelAbortsAlways ==
  \A e \in Execs :
    CancelledBeforeResponse(e) =>
      /\ events[e] = << >>
      /\ ex[e].fetchSignal = e
      /\ ex[e].aborted
      /\ ex[e].abortCalls = 1

\* C1 amended: a cancellation before the response arrives closes the subscription
\* with no event at all, whatever the call does afterwards; where an abort
\* controller is supported the call was handed this execution's signal, the signal
\* is aborted by exactly one controller.abort(), and the call can only reject with
\* the AbortError, which the failure handler swallows; where none is supported the
\* call was handed no signal of the link and is not aborted.
C1_CancelBeforeResponse ==
  \A e \in Execs :
    CancelledBeforeResponse(e) =>
      /\ events[e] = << >>
      /\ ex[e].closed
      /\ ex[e].cleanups = 1
      /\ controllerSupported =>
           /\ ex[e].fetchSignal = e
           /\ ex[e].aborted
           /\ ex[e].abortCalls = 1
           /\ ex[e].pc \in {"fetching", "rejected", "done"}
           /\ ex[e].pc \in {"rejected", "done"} => ex[e].error = AbortError
           /\ ex[e].pc = "done" => ObserverCalls(ex[e].log) = << >>
      /\ ~controllerSupported =>
           /\ ex[e].fetchSignal = 0
           /\ ~ex[e].aborted
           /\ ex[e].abortCalls = 0

\* C1 witness: a call cancelled while pending was aborted through its signal and
\* its AbortError has been swallowed by the failure handler
C1_Witness ==
  \E e \in Execs :
    /\ CancelledBeforeResponse(e)
    /\ controllerSupported
    /\ ex[e].pc = "done"
    /\ ex[e].error = AbortError
    /\ events[e] = << >>

\* the failures that carry a result holding both data and errors
CarriesDataAndErrors(error) ==
  /\ error.result # Undefined
  /\ error.result.data = Data
  /\ error.result.errors = Errs

\* C2: when the network call or the response parsing of an execution the caller
\* has not cancelled fails with a failure carrying a result with data and errors,
\* the observer gets exactly the next event with that result and then the error
\* event with the failure, and no complete event.
C2_PartialResultThenError ==
  \A e \in Execs :
    (/\ ex[e].pc = "done"
     /\ ~ex[e].unsubscribed
     /\ CarriesDataAndErrors(ex[e].error)) =>
      events[e] = << EvNext(ex[e].error.result), EvError(ex[e].error) >>

\* C2 witness: a ServerError of the response parser carrying data and errors has
\* been handled
C2_Witness ==
  \E e \in Execs :
    /\ ex[e].pc = "done"
    /\ ex[e].error.name = "ServerError"
    /\ CarriesDataAndErrors(ex[e].error)
    /\ EventTypes(events[e]) = << "next", "error" >>

\* position of the first step named label in a log, 0 when there is none
RECURSIVE Pos(_, _, _)
Pos(log, label, i) ==
  IF i > Len(log) THEN 0 ELSE IF log[i] = label THEN i ELSE Pos(log, label, i + 1)

Has(log, label) == Pos(log, label, 1) > 0

\* the result handler of execution e delivers its events in this step
EmitsResult(e) == ex[e].pc = "parsed" /\ ex'[e].pc = "done" /\ ~ex[e].closed

\* the steps setContext, parse, next, complete are consecutive in the log
ForwardParseNextComplete(log) ==
  \E i \in 1..Len(log) :
    /\ i + 3 <= Len(log)
    /\ log[i] = "setContext"
    /\ log[i + 1] = "parse"
    /\ log[i + 2] = "next"
    /\ log[i + 3] = "complete"

\* the executions that have forwarded their response on the context
Forwarded == {f \in Execs : Has(ex[f].log, "setContext")}

\* C3 as stated: on a successful response the response is attached to the context
\* before the parser is invoked, which is before next is emitted, next is followed
\* at once by complete, and at the next event the context holds the response that
\* produced it.
C3_ContextHoldsOwnResponse ==
  [][\A e \in Execs :
       EmitsResult(e) =>
         /\ ForwardParseNextComplete(ex'[e].log)
         /\ events'[e] = << EvNext(ex[e].result), EvComplete >>
         /\ context'.response = ex[e].response]_vars

\* C3 amended: the order setContext, parse, next, complete holds in every
\* execution and next and complete are delivered together; at the next event the
\* context holds a response one of the operation's subscriptions forwarded, and it
\* is the response that produced the event whenever no other subscription to the
\* same producer has forwarded a response of its own (all subscriptions share the
\* operation's context, and the last one to forward wins).
C3_ContextHoldsForwardedResponse ==
  [][\A e \in Execs :
       EmitsResult(e) =>
         /\ ForwardParseNextComplete(ex'[e].log)
         /\ events'[e] = << EvNext(ex[e].result), EvComplete >>
         /\ \E f \in Forwarded : context'.response = ex[f].response
         /\ Forwarded = {e} => context'.response = ex[e].response]_vars

\* C3 witness: a result was delivered with its response on the context
C3_Witness ==
  \E e \in Execs :
    /\ EventTypes(events[e]) = << "next", "complete" >>
    /\ context.response = [id |-> e]
    /\ ForwardParseNextComplete(ex[e].log)

\* the part of a multipart body named name
PartsNamed(b, name) == {j \in 1..Len(b.parts) : b.parts[j].name = name}

\* b is the multipart body of the files fs: its map field maps each index, in list
\* order, to the one-element array of that file's path, and each index has exactly
\* one file part
IsMultipartOf(b, fs) ==
  /\ b.kind = "formdata"
  /\ Cardinality(PartsNamed(b, "operations")) = 1
  /\ Cardinality(PartsNamed(b, "map")) = 1
  /\ \A j \in PartsNamed(b, "map") :
       /\ Len(b.parts[j].value.members) = Len(fs)
       /\ \A i \in 1..Len(fs) :
            /\ b.parts[j].value.members[i].k = Digit(i - 1)
            /\ b.parts[j].value.members[i].v =
                 [t |-> "array", items |-> << Str(fs[i].path) >>]
  /\ \A i \in 1..Len(fs) :
       /\ Cardinality(PartsNamed(b, Digit(i - 1))) = 1
       /\ \A j \in PartsNamed(b, Digit(i - 1)) : b.parts[j].value = fs[i].file

\* C4: for an operation with at least one extracted file, every subscription
\* hands the network call a multipart body whose map field maps each index to the
\* one-element array of the file's path, with exactly one file part per index.
C4_FilesSentAsMultipart ==
  \A e \in Execs :
    (Len(files) > 0 /\ ex[e].pc # "idle") =>
      /\ ex[e].fetches = 1
      /\ IsMultipartOf(ex[e].fetchBody, files)

TxtRewrittenUser == << " ", "q", "u", "e", "r", "y", " ", "{", " ", " ", "u", "s", "e", "r", "(", "i", "d", ":", " ", "5", ")", " ", "{", " ", "n", "a", "m", "e", " ", "}", " ", " ", "}", " " >>

\* the body handed to the network call is the JSON text of a rewritten body whose
\* query is the rewrite of the operation's query with the operation's variables
IsRewrittenJson(b) ==
  /\ b.kind = "json"
  /\ \A i \in 1..Len(b.members) : b.members[i].k \in {"operationName", "query", "variables"}
  /\ Get(Parse(b), "variables") = Null
  /\ Get(Parse(b), "query") = Str(RewriteQuery(operation.query, operation.variables))
  /\ operation = OpUser => Get(Parse(b), "query") = Str(TxtRewrittenUser)

\* no multipart container was built
NoMultipart == options.body.kind # "formdata" /\ ~Has(linkLog, "multipart")

\* the request body carries a non-empty query text: line 156 is truthy
CarriesQuery == includeQuery /\ Len(operation.query) > 0

\* C5 as stated: for an operation without files every body handed to the network
\* call is the JSON serialization of the rewritten body, and no multipart
\* container is built.
C5_NoFilesAlwaysRewritten ==
  \A e \in Execs :
    (Len(files) = 0 /\ ex[e].fetches > 0) =>
      IsRewrittenJson(ex[e].fetchBody) /\ NoMultipart

\* C5 amended: for an operation without files no multipart container is built and
\* the body handed to the network call is a JSON text: the serialization of the
\* rewritten body when the request body carries a non-empty query text, and the
\* serialization of the body as selected, variables included, when it carries
\* none (includeQuery: false) or an empty one, since the rewrite is skipped then.
C5_NoFilesJsonBody ==
  \A e \in Execs :
    (Len(files) = 0 /\ ex[e].fetches > 0) =>
      /\ NoMultipart
      /\ CarriesQuery => IsRewrittenJson(ex[e].fetchBody)
      /\ ~CarriesQuery =>
           /\ ex[e].fetchBody.kind = "json"
           /\ ex[e].fetchBody.members =
                << Member("operationName", operation.operationName),
                   Member("variables", operation.variables) >>
                  \o (IF includeQuery THEN << Member("query", Str(<< >>)) >> ELSE << >>)

\* C5 witness: the network call of an operation without files was handed the
\* rewritten body
C5_Witness ==
  \E e \in Execs :
    /\ Len(files) = 0
    /\ includeQuery
    /\ operation = OpUser
    /\ ex[e].fetches = 1
    /\ ex[e].fetchBody.kind = "json"

\* the steps of the request handler followed by those of execution e
Pipeline(e) == linkLog \o ex[e].log

\* C6: the steps of an operation run in the order query rewrite, payload
\* serialization, multipart encoding when files were found, network call, and the
\* operations field of the multipart body is the serialized rewritten body.
C6_RewriteSerializeEncodeFetch ==
  \A e \in Execs :
    ex[e].pc # "idle" =>
      /\ Has(Pipeline(e), "rewrite")
      /\ Pos(Pipeline(e), "rewrite", 1) < Pos(Pipeline(e), "serialize", 1)
      /\ Has(Pipeline(e), "fetch")
      /\ Pos(Pipeline(e), "serialize", 1) < Pos(Pipeline(e), "fetch", 1)
      /\ Len(files) > 0 =>
           /\ Pos(Pipeline(e), "serialize", 1) < Pos(Pipeline(e), "multipart", 1)
           /\ Pos(Pipeline(e), "multipart", 1) < Pos(Pipeline(e), "fetch", 1)
           /\ ex[e].fetchBody.kind = "formdata"
           /\ \A j \in PartsNamed(ex[e].fetchBody, "operations") :
                IsRewrittenJson(ex[e].fetchBody.parts[j].value)

\* C7: the rewrite runs once per operation: no subscription runs it on a body
\* that was already rewritten, one whose variables are null.
C7_RewriteNeverOnRewrittenBody ==
  \A e \in Execs :
    Has(ex[e].log, "rewrite") => Get(ex[e].body, "variables") # Null

\* at most one next, at most one terminal event, and nothing after the terminal one
WellFormed(types) ==
  /\ Cardinality({i \in 1..Len(types) : types[i] = "next"}) <= 1
  /\ Cardinality({i \in 1..Len(types) : types[i] \in {"error", "complete"}}) <= 1
  /\ \A i \in 1..Len(types) : types[i] \in {"error", "complete"} => i = Len(types)

\* C8: in every execution the observer is delivered at most one next event and at
\* most one terminal event (complete or error), and nothing after the terminal
\* event; the code itself calls the observer that way; once the subscription is
\* closed, by a terminal event or by the caller's cancellation, no event is
\* delivered any more.
C8_AtMostOneNextOneTerminal ==
  [][\A e \in Execs :
       /\ WellFormed(EventTypes(events'[e]))
       /\ WellFormed(ObserverCalls(ex'[e].log))
       /\ ex[e].closed => events'[e] = events[e]
       /\ ex[e].unsubscribed => events'[e] = events[e]]_vars

\* C8 witness: the result handler ran after the caller had cancelled, and its next
\* and complete were not delivered
C8_Witness ==
  \E e \in Execs :
    /\ ex[e].unsubscribed
    /\ ex[e].pc = "done"
    /\ ObserverCalls(ex[e].log) = << "next", "complete" >>
    /\ events[e] = << >>

\* the outcomes of an execution: a result followed by complete, or an error
\* event, alone or after the result the failure carried
IsOutcome(types) ==
  types \in { << "next", "complete" >>, << "error" >>, << "next", "error" >> }

\* the network call and the response parsing of execution e have settled and the
\* final handler has not run
Settled(e) == ex[e].pc \in {"parsed", "rejected"}

\* C9 as stated: every subscribed execution the caller has not cancelled ends with
\* exactly one outcome, and once its network call has settled a handler that
\* produces it is ready to run.
C9_UncancelledAlwaysTerminates ==
  \A e \in Execs :
    /\ Settled(e) => ENABLED (ThenEmit(e) \/ CatchHandler(e))
    /\ (ex[e].pc = "done" /\ ~ex[e].unsubscribed) => IsOutcome(EventTypes(events[e]))

\* C9 amended: once the network call has settled the final handler is ready to
\* run, and every execution the caller has not cancelled ends with exactly one
\* outcome unless the failure is an AbortError: an AbortError the fetch rejects
\* with of its own is swallowed like a cancellation, so that execution ends with
\* no event at all and its subscription stays open.
C9_TerminatesUnlessAbortError ==
  \A e \in Execs :
    /\ Settled(e) => ENABLED (ThenEmit(e) \/ CatchHandler(e))
    /\ (ex[e].pc = "done" /\ ~ex[e].unsubscribed) =>
         IF ex[e].error.name = "AbortError"
         THEN events[e] = << >> /\ ~ex[e].closed /\ ex[e].abortCalls = 0
         ELSE IsOutcome(EventTypes(events[e])) /\ ex[e].closed

\* C9 witness: an execution nobody cancelled has ended with an error event for a
\* network failure
C9_Witness ==
  \E e \in Execs :
    /\ ex[e].pc = "done"
    /\ ~ex[e].unsubscribed
    /\ ex[e].fetches = 1
    /\ ex[e].error.name = "TypeError"
    /\ EventTypes(events[e]) = << "error" >>

\* the phases of the call at which it has not settled
InFlight == {"pending", "receiving"}

\* C10 as stated: once the producer is torn down the abort of the network call
\* has run exactly once for the execution, and it ran only while the call was
\* still in flight.
C10_AbortOnceOnlyInFlight ==
  \A e \in Execs :
    ex[e].closed => ex[e].abortCalls = 1 /\ ex[e].abortAt \in InFlight

\* the counts of an execution record x agree with the amended C10
AbortCountsOk(x) ==
  /\ x.cleanups <= 1
  /\ x.abortCalls <= 1
  /\ ~x.closed => x.cleanups = 0 /\ x.abortCalls = 0
  /\ x.closed =>
       /\ x.cleanups = x.fetches
       /\ x.abortCalls = (IF controllerSupported THEN x.fetches ELSE 0)
  /\ x.aborted <=> x.abortCalls = 1

\* C10 amended: tearing the producer down, by the caller's unsubscription or by a
\* terminal event, runs the cleanup function at most once, and exactly once for
\* an execution that issued its network call (a subscriber that threw before the
\* fetch returned none); the cleanup calls controller.abort() exactly once where
\* an abort controller is supported and never where none is; it calls it whether
\* or not the call has settled, and the abort changes the outcome of the call, to
\* a rejection with the AbortError, only while the call is in flight.
C10_CleanupAbortsOncePerIssuedCall ==
  [][\A e \in Execs :
       /\ AbortCountsOk(ex'[e])
       /\ (ex'[e].error = AbortError /\ ex[e].error # AbortError /\ ex[e].aborted) =>
            ex[e].pc \in {"fetching", "parsing"}
       /\ (ex[e].aborted /\ ex[e].pc = "fetching" /\ ex'[e].pc # "fetching") =>
            ex'[e].pc = "rejected" /\ ex'[e].error = AbortError
       /\ (ex[e].aborted /\ Phase(ex[e].pc) \notin InFlight /\ ex[e].pc # "idle") =>
            /\ ex'[e].error = ex[e].error
            /\ ex'[e].result = ex[e].result
            /\ ex'[e].response = ex[e].response]_vars

\* C10 witness: the teardown after a delivered result called controller.abort()
\* once, on a call that had settled
C10_Witness ==
  \E e \in Execs :
    /\ ex[e].closed
    /\ ~ex[e].unsubscribed
    /\ ex[e].abortCalls = 1
    /\ ex[e].abortAt = "settled"
    /\ EventTypes(events[e]) = << "next", "complete" >>


(***************************************************************************)
(* C11 - C13: the rewrite of the query text.                               *)
(***************************************************************************)
\* the execution rewrote the body and handed it to the network call
SentRewritten(e) == ex[e].fetches > 0 /\ Has(ex[e].log, "rewrite")

\* the query text of the body the network call of e was handed
SentQuery(e) == Get(Parse(ex[e].fetchBody), "query")

TxtQueryOpen == << " ", "q", "u", "e", "r", "y", " ", "{", " " >>
TxtQueryClose == << " ", "}", " " >>

\* the loop as C11 states it: each placeholder replaced by the literal val
RECURSIVE SubstituteValFrom(_, _, _)
SubstituteValFrom(raw, variables, i) ==
  IF i > Len(variables.m) THEN raw
  ELSE SubstituteValFrom(
         ReplaceFirst(raw, << "$" >> \o variables.m[i].k, Val(variables.m[i].k, variables.m[i].v)),
         variables, i + 1)

\* C11 as stated: a placeholder is replaced by the raw value when its key is
\* 'id' (case-insensitive) or its value is a number, and by the value wrapped
\* in single quotes otherwise.
C11_PlaceholderReplacedByLiteral ==
  \A e \in Execs :
    SentRewritten(e) =>
      SentQuery(e) =
        Str(TxtQueryOpen
              \o StripNewlines(SubstituteValFrom(RawQuery(operation.query),
                                                 operation.variables, 1))
              \o TxtQueryClose)

TxtRewrittenAdd == << " ", "q", "u", "e", "r", "y", " ", "{", " ", " ", "a", "d", "d", "(", "n", "a", "m", "e", ":", " ", "A", "l", ")", " ", " ", "}", " " >>

\* C12: the rewritten body handed to the network call has the query
\* ' query { ' + selection set with the values substituted and the newlines
\* removed + ' } ', variables null, and as operationName the `operation` field
\* of the body the subscriber parsed; '{ user(id: $id) { name } }' with {id: 5}
\* gives ' query {  user(id: 5) { name }  } '.
C12_RewrittenBodyShape ==
  \A e \in Execs :
    SentRewritten(e) =>
      LET sent == Parse(ex[e].fetchBody)
          q == SentQuery(e).v
          n == Len(q)
      IN  /\ SentQuery(e).t = "string"
          /\ n >= Len(TxtQueryOpen) + Len(TxtQueryClose)
          /\ SubSeq(q, 1, Len(TxtQueryOpen)) = TxtQueryOpen
          /\ SubSeq(q, n - Len(TxtQueryClose) + 1, n) = TxtQueryClose
          /\ \A i \in 1..n : q[i] # "\n"
          /\ operation = OpUser => q = TxtRewrittenUser
          /\ operation = OpAdd => q = TxtRewrittenAdd
          /\ Get(sent, "variables") = Null
          /\ Get(sent, "operationName") = Get(ex[e].body, "operation")

\* C12 witness: a query text with a newline was rewritten and handed to the
\* network call
C12_Witness ==
  \E e \in Execs :
    /\ operation = OpAdd
    /\ \E i \in 1..Len(operation.query) : operation.query[i] = "\n"
    /\ SentRewritten(e)

\* C13 as stated: the rewrite is unconditional, every body handed to the
\* network call has variables null, also with an empty or absent query.
C13_EveryBodyHasNullVariables ==
  \A e \in Execs :
    ex[e].fetches > 0 =>
      /\ Has(ex[e].log, "rewrite")
      /\ Get(Parse(ex[e].fetchBody), "variables") = Null

\* C13 amended: the rewrite runs exactly when the body carries a non-empty
\* query text, and then the body handed to the network call has variables
\* null; with an empty or absent query the body is handed over as serialized,
\* with the variables of the operation.
C13_RewriteOnlyWithQuery ==
  \A e \in Execs :
    ex[e].fetches > 0 =>
      LET sent == Parse(ex[e].fetchBody)
      IN  /\ Has(ex[e].log, "rewrite") <=> CarriesQuery
          /\ CarriesQuery => Get(sent, "variables") = Null
          /\ ~CarriesQuery =>
               /\ Get(sent, "variables") = operation.variables
               /\ Get(sent, "variables") # Null
               /\ Get(sent, "operationName") = operation.operationName
               /\ Get(sent, "query") = (IF includeQuery THEN Str(<< >>) ELSE Undefined)

\* C13 witness: bodies with an empty query text and without a query were handed
\* to the network call with their variables
C13_Witness ==
  \E e \in Execs :
    /\ ex[e].fetches = 1
    /\ ~CarriesQuery
    /\ operation \in {OpEmpty, OpUser}
    /\ Get(Parse(ex[e].fetchBody), "variables") = Obj(<< Member(TxtId, Num(5)) >>)


(***************************************************************************)
(* C14 - C16: failures and the issue of the network call.                  *)
(***************************************************************************)
\* the network call of e or the parsing of its response failed with a failure
\* that is no abort and carries no result with both data and errors
FailedWithoutResult(e) ==
  /\ ex[e].fetches = 1
  /\ ex[e].error # NoError
  /\ ex[e].error.name # "AbortError"
  /\ ~CarriesDataAndErrors(ex[e].error)

\* C14: when the network call (or the response parsing) of an execution the
\* caller has not cancelled fails with a failure that is no abort and carries
\* no result with both data and errors, the observer gets exactly one error
\* event carrying that failure, no next event and no complete event.
C14_PlainFailureErrorOnly ==
  \A e \in Execs :
    (ex[e].pc = "done" /\ ~ex[e].unsubscribed /\ FailedWithoutResult(e)) =>
      events[e] = << EvError(ex[e].error) >>

\* C14 witness: a rejection of the network call without a result and a
\* ServerError whose result has errors but no data have been handled
C14_Witness ==
  \E e, f \in Execs :
    /\ ex[e].pc = "done" /\ ~ex[e].unsubscribed
    /\ ex[e].error = [name |-> "TypeError", result |-> Undefined]
    /\ Has(ex[e].log, "fetch")
    /\ events[e] = << EvError(ex[e].error) >>
    /\ ex[f].pc = "done" /\ ~ex[f].unsubscribed
    /\ ex[f].error = [name |-> "ServerError", result |-> [data |-> Undefined, errors |-> Errs]]
    /\ events[f] = << EvError(ex[f].error) >>

\* the operation holds a variable that cannot be serialized
HasCyclicVariable ==
  \E i \in 1..Len(operation.variables.m) : operation.variables.m[i].v = Cyclic

\* C15: when the payload cannot be serialized the request handler throws: no
\* body is left in the options, no execution starts and no network call is
\* ever issued for the operation.
C15_UnserializableNeverFetched ==
  HasCyclicVariable =>
    /\ linkPc \in {"start", "threw"}
    /\ options.body = NoBody
    /\ \A e \in Execs : ex[e] = IdleExec /\ ex[e].fetches = 0 /\ events[e] = << >>

\* C15 witness: the request handler threw on a payload with a cycle
C15_Witness == HasCyclicVariable /\ linkPc = "threw" /\ Has(linkLog, "serialize")

\* C16 as stated: no network call before the subscription, and every
\* subscription issues, within the subscription, exactly one network call
\* with one cancellation token of its own (where the platform has abort
\* controllers).
C16_OneCallOneTokenPerSubscription ==
  \A e \in Execs :
    /\ ex[e].pc = "idle" => ex[e].fetches = 0
    /\ ex[e].pc # "idle" =>
         /\ ex[e].fetches = 1
         /\ controllerSupported => ex[e].fetchSignal = e


(***************************************************************************)
(* C17 - C18: cancellation.                                                *)
(***************************************************************************)
\* the response of e was received and parsed without a failure
ParsedResult(e) == ex[e].result # Undefined /\ ex[e].error = NoError

\* the caller cancelled e after the parser resolved and before the result
\* handler ran
CancelledAfterParse(e) ==
  ParsedResult(e) /\ ex[e].unsubscribed /\ ex[e].unsubAt = "settled"

\* C17 as stated: a cancellation requested after the response was received and
\* parsed has no effect, the result is still emitted as a next event followed
\* by complete.
C17_CancelAfterParseStillEmits ==
  \A e \in Execs :
    (ex[e].pc = "done" /\ ParsedResult(e)
       /\ (ex[e].lateUnsub \/ CancelledAfterParse(e))) =>
      events[e] = << EvNext(ex[e].result), EvComplete >>

\* C17 amended: a cancellation requested after the result handler emitted the
\* result has no effect: the observer keeps the next event and complete and the
\* cleanup function is not run again. A cancellation requested after the
\* response was parsed and before the result handler ran closes the
\* subscription: the handler's next and complete are dropped and the observer
\* gets no event.
C17_CancelAfterEmitNoEffect ==
  \A e \in Execs :
    (ex[e].pc = "done" /\ ParsedResult(e)) =>
      /\ ex[e].lateUnsub =>
           /\ events[e] = << EvNext(ex[e].result), EvComplete >>
           /\ ex[e].cleanups = 1
           /\ ex[e].abortCalls <= 1
      /\ CancelledAfterParse(e) =>
           /\ events[e] = << >>
           /\ ObserverCalls(ex[e].log) = << "next", "complete" >>
           /\ ex[e].cleanups = 1

\* C17 witness: one subscription was cancelled after its result was emitted,
\* the other after its response was parsed and before the result handler ran
C17_Witness ==
  \E e, f \in Execs :
    /\ ex[e].pc = "done" /\ ParsedResult(e) /\ ex[e].lateUnsub
    /\ events[e] = << EvNext(ex[e].result), EvComplete >>
    /\ ex[f].pc = "done" /\ CancelledAfterParse(f)
    /\ events[f] = << >>

\* the caller cancels e in this step
Cancels(e) == ~ex[e].unsubscribed /\ ex'[e].unsubscribed

\* C18: the executions do not share a cancellation token: the signal a network
\* call was handed is the one its own subscription created, it is aborted only
\* by the cleanup of that subscription, and a step in which the caller cancels
\* one subscription leaves the other's state, its signal and its events as
\* they were.
C18_CancelTouchesOwnCallOnly ==
  /\ [](\A f \in Execs :
          /\ ex[f].fetchSignal \in {0, f}
          /\ SignalAborted(f) => ex[f].abortCalls = 1)
  /\ [][\A e \in Execs :
          Cancels(e) =>
            \A f \in Execs \ {e} :
              /\ ex'[f] = ex[f]
              /\ events'[f] = events[f]
              /\ SignalAborted(f)' = SignalAborted(f)]_vars

\* C18 witness: two network calls were in flight, the first subscription was
\* cancelled and its call aborted, the call of the second is still pending
\* with its signal not aborted
C18_Witness ==
  /\ ex[1].unsubscribed /\ ex[1].unsubAt = "pending" /\ SignalAborted(1)
  /\ ex[2].pc = "fetching" /\ ex[2].fetchSignal = 2 /\ ~SignalAborted(2)


(***************************************************************************)
(* C19 - C20: the operation is left alone; the order of the substitution.  *)
(***************************************************************************)
\* C19 as stated: no step changes the name, the query text or the variables of
\* the operation, and the context changes only by the first then handler
\* setting its response key to a response the network call resolved with.
C19_OperationOnlyAnnotated ==
  [][/\ operation' = operation
     /\ context' # context =>
          \E e \in Execs :
            /\ ex[e].pc = "resolved"
            /\ ex[e].response # Undefined
            /\ context' = [context EXCEPT !.response = ex[e].response]]_vars

TxtRewrittenPrefix == << " ", "q", "u", "e", "r", "y", " ", "{", " ", " ", "a", "(", "x", ":", " ", "5", "E", "x", "t", "r", "a", ",", " ", "y", ":", " ", "$", "i", "d", ",", " ", "z", ":", " ", "$", "I", "D", ")", " ", " ", "}", " " >>

\* C20: the keys are visited in the order of the variables mapping and each
\* replaces only the first case-insensitive occurrence of '$' + key: with the
\* variables {id: 5, idExtra: 7} the selection set
\* ' a(x: $IdExtra, y: $id, z: $ID) ' becomes ' a(x: 5Extra, y: $id, z: $ID) ':
\* id, visited first, matches inside $IdExtra, the later $id and $ID stay, and
\* idExtra finds no placeholder left.
C20_FirstOccurrenceInKeyOrder ==
  \A e \in Execs :
    (operation = OpPrefix /\ SentRewritten(e)) =>
      /\ operation.variables.m[1].k = TxtId
      /\ operation.variables.m[2].k = TxtIdExtra
      /\ RawQuery(operation.query) = SubSeq(operation.query, 2, Len(operation.query) - 1)
      /\ MatchIndex(RawQuery(operation.query), << "$" >> \o TxtId, 1) = 7
      /\ SentQuery(e) = Str(TxtRewrittenPrefix)

\* C20 witness: the query with the placeholders $IdExtra, $id and $ID was
\* rewritten and handed to the network call
C20_Witness ==
  \E e \in Execs :
    /\ operation = OpPrefix
    /\ SentRewritten(e)
    /\ SentQuery(e) = Str(TxtRewrittenPrefix)

====
